---- MODULE Spec2Model ----
(***************************************************************************)
(* A model of prime-gen (src/prime-gen.mjs): the name derivation, the      *)
(* resolution of the markup path, the run of the generator script (its     *)
(* top-level statements and the asynchronous processFormFile), the text    *)
(* generators and the merge of a route entry into apps.routes.ts.          *)
(*                                                                         *)
(* Text is modelled as a sequence of one-character strings; a fixed piece  *)
(* of a template is one element of such a sequence.                        *)
(***************************************************************************)
EXTENDS Integers, Sequences, FiniteSets, TLC

VARIABLES
    \* name derivation (lines 21-37)
    rawAppName, APP_CAMEL, APP_KEBAB, PAS, TITLE, namesPc,
    \* src/app/apps/apps.routes.ts and the merges made into it (lines 175-200)
    routesFile, saveCount, mergeLog,
    \* one run of the script: the markup path and what it names, the position of
    \* the top-level statements and of processFormFile, and what the run did
    HTML_FILE_PATH, inputStat, topPc, procPc, formHtmlPath, formFieldsJson,
    pendingError, exitCode, stderr, trace,
    \* two runs merging into the same apps.routes.ts: each run's position in
    \* updateAppsRoutesTs, its module token, the source file it holds in
    \* memory, its outcome; and the elements of the file before the two runs
    racePc, raceToken, snapshot, raceResult, raceInitial,
    \* the text generators: the fields, the position, the generated texts
    formFieldsSchema, genPc, genOut,
    \* the local extraction (lines 572-609): the elements $('input, select,
    \* textarea') matches, the index of each, and the fields pushed
    formElements, eachIndex, formFields

namesVars == <<rawAppName, APP_CAMEL, APP_KEBAB, PAS, TITLE, namesPc>>

mergeVars == <<routesFile, saveCount, mergeLog>>

runVars == <<HTML_FILE_PATH, inputStat, topPc, procPc, formHtmlPath,
             formFieldsJson, pendingError, exitCode, stderr, trace>>

raceVars == <<racePc, raceToken, snapshot, raceResult, raceInitial>>

genVars == <<formFieldsSchema, genPc, genOut>>

extractVars == <<formElements, eachIndex, formFields>>

vars == <<namesVars, mergeVars, runVars, raceVars, genVars, extractVars>>

(***************************************************************************)
(* Characters.                                                             *)
(***************************************************************************)
LowerSeq == <<"a","b","c","d","e","f","g","h","i","j","k","l","m",
              "n","o","p","q","r","s","t","u","v","w","x","y","z">>

UpperSeq == <<"A","B","C","D","E","F","G","H","I","J","K","L","M",
              "N","O","P","Q","R","S","T","U","V","W","X","Y","Z">>

Range(s) == { s[i] : i \in DOMAIN s }

LowerLetters == Range(LowerSeq)

UpperLetters == Range(UpperSeq)

Digits == {"0","1","2","3","4","5","6","7","8","9"}

\* the class [-_ ] of the first regular expression of toCamelCase
Separators == {"-", "_", " "}

IndexIn(c, s) == CHOOSE i \in DOMAIN s : s[i] = c

\* String.prototype.toUpperCase on one character
toUpperCase(c) == IF c \in LowerLetters THEN UpperSeq[IndexIn(c, LowerSeq)] ELSE c

\* String.prototype.toLowerCase on one character
toLowerCase(c) == IF c \in UpperLetters THEN LowerSeq[IndexIn(c, UpperSeq)] ELSE c

MapSeq(s, Op(_)) == [i \in DOMAIN s |-> Op(s[i])]

RECURSIVE Flatten(_)
Flatten(ss) == IF ss = <<>> THEN <<>> ELSE Head(ss) \o Flatten(Tail(ss))

(***************************************************************************)
(* The states of src/app/apps/apps.routes.ts: whether the file exists,     *)
(* whether its source holds an array literal, and the texts of the         *)
(* elements of the first array literal (getElements(), getText()).         *)
(***************************************************************************)
NoFile == [exists |-> FALSE, hasArray |-> FALSE, elements |-> <<>>]

SourceFile(els) == [exists |-> TRUE, hasArray |-> TRUE, elements |-> els]

NoArrayFile == [exists |-> TRUE, hasArray |-> FALSE, elements |-> <<>>]

\* a specification that runs no script leaves the run's variables at these
NoRun ==
    /\ HTML_FILE_PATH = <<>>
    /\ inputStat = [type |-> "none", listing |-> <<>>]
    /\ topPc = "off"
    /\ procPc = "off"
    /\ formHtmlPath = <<>>
    /\ formFieldsJson = "none"
    /\ pendingError = <<>>
    /\ exitCode = -1
    /\ stderr = <<>>
    /\ trace = <<>>

\* a specification without the two racing runs leaves their variables at these
NoRace ==
    /\ racePc = <<>>
    /\ raceToken = <<>>
    /\ snapshot = <<>>
    /\ raceResult = <<>>
    /\ raceInitial = <<>>

\* a specification that generates no text leaves the generators' variables at
\* these
NoGen ==
    /\ formFieldsSchema = <<>>
    /\ genPc = "off"
    /\ genOut = <<>>

\* a specification without the local extraction leaves its variables at these
NoExtract ==
    /\ formElements = <<>>
    /\ eachIndex = 0
    /\ formFields = <<>>

(***************************************************************************)
(* toCamelCase (lines 21-26).                                              *)
(***************************************************************************)
\* first index >= i whose character is no separator, Len(s) + 1 if none
RunEnd(s, i) ==
    LET after == { j \in i..Len(s) : s[j] \notin Separators }
    IN  IF after = {} THEN Len(s) + 1
        ELSE CHOOSE j \in after : \A k \in after : j <= k

\* .replace(/[-_ ]+./g, s => s.charAt(s.length - 1).toUpperCase()): a run of
\* separators and the character after it become that character in upper
\* case; a run that reaches the end of the text matches only when it holds
\* two separators or more (the last of them is then the "."), and a lone
\* trailing separator does not match.
RECURSIVE ReplaceSeparatorRuns(_, _)
ReplaceSeparatorRuns(s, i) ==
    IF i > Len(s) THEN <<>>
    ELSE IF s[i] \notin Separators
         THEN <<s[i]>> \o ReplaceSeparatorRuns(s, i + 1)
         ELSE LET j == RunEnd(s, i)
              IN  IF j <= Len(s)
                  THEN <<toUpperCase(s[j])>> \o ReplaceSeparatorRuns(s, j + 1)
                  ELSE IF j - i >= 2
                       THEN <<toUpperCase(s[Len(s)])>>
                       ELSE <<s[i]>>

IsAlphaNum(c) == c \in LowerLetters \cup UpperLetters \cup Digits

\* .replace(/[^a-zA-Z0-9]/g, '')
StripNonAlphaNum(s) == SelectSeq(s, IsAlphaNum)

\* .replace(/^[A-Z]/, s => s.toLowerCase())
LowerFirst(s) ==
    IF s # <<>> /\ s[1] \in UpperLetters
    THEN <<toLowerCase(s[1])>> \o Tail(s)
    ELSE s

toCamelCase(str) == LowerFirst(StripNonAlphaNum(ReplaceSeparatorRuns(str, 1)))

(***************************************************************************)
(* APP_KEBAB, PAS, TITLE (lines 32-37).                                    *)
(***************************************************************************)
\* the pattern ([a-z0-9])([A-Z]) at position i of s
CaseBoundaryAt(s, i) ==
    /\ i < Len(s)
    /\ s[i] \in LowerLetters \cup Digits
    /\ s[i + 1] \in UpperLetters

\* .replace(/([a-z0-9])([A-Z])/g, '$1' + sep + '$2'): matches are found left
\* to right and do not overlap
RECURSIVE InsertAtCaseBoundaries(_, _, _)
InsertAtCaseBoundaries(s, i, sep) ==
    IF i > Len(s) THEN <<>>
    ELSE IF CaseBoundaryAt(s, i)
         THEN <<s[i], sep, s[i + 1]>> \o InsertAtCaseBoundaries(s, i + 2, sep)
         ELSE <<s[i]>> \o InsertAtCaseBoundaries(s, i + 1, sep)

\* mutant of Kebab: the replace without the g flag, only the first boundary
KebabFirstBoundaryOnly(camel) ==
    LET at == { i \in 1..Len(camel) : CaseBoundaryAt(camel, i) }
    IN  IF at = {} THEN MapSeq(camel, toLowerCase)
        ELSE LET i == CHOOSE k \in at : \A m \in at : k <= m
             IN  MapSeq(SubSeq(camel, 1, i) \o <<"-">>
                        \o SubSeq(camel, i + 1, Len(camel)), toLowerCase)

\* line 32
Kebab(camel) == MapSeq(InsertAtCaseBoundaries(camel, 1, "-"), toLowerCase)

\* line 33: charAt(0).toUpperCase() + slice(1)
Pascal(camel) ==
    IF camel = <<>> THEN <<>> ELSE <<toUpperCase(camel[1])>> \o Tail(camel)

\* String.prototype.split(' '): the pieces between the spaces, empty ones kept
RECURSIVE SplitOnSpace(_)
SplitOnSpace(s) ==
    LET at == { i \in 1..Len(s) : s[i] = " " }
    IN  IF at = {} THEN <<s>>
        ELSE LET i == CHOOSE k \in at : \A m \in at : k <= m
             IN  <<SubSeq(s, 1, i - 1)>> \o SplitOnSpace(SubSeq(s, i + 1, Len(s)))

\* Array.prototype.join(' ')
RECURSIVE JoinWithSpace(_)
JoinWithSpace(ws) ==
    IF ws = <<>> THEN <<>>
    ELSE IF Len(ws) = 1 THEN ws[1]
         ELSE ws[1] \o <<" ">> \o JoinWithSpace(Tail(ws))

\* w.charAt(0).toUpperCase() + w.slice(1).toLowerCase()
Capitalize(w) ==
    IF w = <<>> THEN <<>>
    ELSE <<toUpperCase(w[1])>> \o MapSeq(Tail(w), toLowerCase)

\* lines 34-37
Title(camel) ==
    JoinWithSpace(MapSeq(SplitOnSpace(InsertAtCaseBoundaries(camel, 1, " ")),
                         Capitalize))

(***************************************************************************)
(* The tokens of the name derivation.                                      *)
(***************************************************************************)
MaxTokenLen == 4

TokenChars == {"a", "b", "B", "7", "-", "!"}

RECURSIVE SeqsUpTo(_, _)
SeqsUpTo(S, n) ==
    IF n = 0 THEN {<<>>}
    ELSE LET shorter == SeqsUpTo(S, n - 1)
         IN  shorter \cup { Append(s, c) : s \in shorter, c \in S }

orderEntry == <<"o","r","d","e","r","E","n","t","r","y">>

Tokens == SeqsUpTo(TokenChars, MaxTokenLen) \cup {orderEntry}

NamesInit ==
    /\ rawAppName \in Tokens
    /\ APP_CAMEL = <<>>
    /\ APP_KEBAB = <<>>
    /\ PAS = <<>>
    /\ TITLE = <<>>
    /\ namesPc = "camel"
    /\ routesFile = NoFile
    /\ saveCount = 0
    /\ mergeLog = <<>>
    /\ NoRun
    /\ NoRace
    /\ NoGen
    /\ NoExtract

\* line 31
DeriveCamel ==
    /\ namesPc = "camel"
    /\ APP_CAMEL' = toCamelCase(rawAppName)
    /\ namesPc' = "kebab"
    /\ UNCHANGED <<rawAppName, APP_KEBAB, PAS, TITLE, mergeVars, runVars, raceVars, genVars, extractVars>>

\* line 32
DeriveKebab ==
    /\ namesPc = "kebab"
    /\ APP_KEBAB' = Kebab(APP_CAMEL)
    /\ namesPc' = "pas"
    /\ UNCHANGED <<rawAppName, APP_CAMEL, PAS, TITLE, mergeVars, runVars, raceVars, genVars, extractVars>>

\* line 33
DerivePas ==
    /\ namesPc = "pas"
    /\ PAS' = Pascal(APP_CAMEL)
    /\ namesPc' = "title"
    /\ UNCHANGED <<rawAppName, APP_CAMEL, APP_KEBAB, TITLE, mergeVars, runVars, raceVars, genVars, extractVars>>

\* lines 34-37
DeriveTitle ==
    /\ namesPc = "title"
    /\ TITLE' = Title(APP_CAMEL)
    /\ namesPc' = "done"
    /\ UNCHANGED <<rawAppName, APP_CAMEL, APP_KEBAB, PAS, mergeVars, runVars, raceVars, genVars, extractVars>>

NamesNext == DeriveCamel \/ DeriveKebab \/ DerivePas \/ DeriveTitle

SpecNames == NamesInit /\ [][NamesNext]_vars

(***************************************************************************)
(* apps.routes.ts and updateAppsRoutesTs (lines 175-200).                  *)
(*                                                                         *)
(* The file is a record: whether it exists, whether its source holds an    *)
(* array literal, and the texts of the elements of the first array literal *)
(* (ArrayLiteralExpression.getElements(), Node.getText()).                 *)
(***************************************************************************)
\* the template of lines 189-194
newRoute(appKebab, appTitle, appCamel) ==
    <<"{", "path:", " ", "'">> \o appKebab \o <<"'", ",",
      "data:", " ", "{", " ", "breadcrumb:", " ", "'">> \o appTitle \o <<"'", " ", "}", ",",
      "loadChildren:", " ", "() =>", " ", "import(", "'", "@/apps/">> \o appKebab
      \o <<"/">> \o appKebab \o <<".routes", "'", ")", ".then(m => m.">> \o appCamel
      \o <<"Routes", ")", "}">>

\* the text searched for at line 182: `path: '${appKebab}'`
PathNeedle(appKebab) == <<"path:", " ", "'">> \o appKebab \o <<"'">>

\* String.prototype.includes
Includes(text, needle) ==
    \E i \in 1..(Len(text) - Len(needle) + 1) :
        SubSeq(text, i, i + Len(needle) - 1) = needle

\* mutant of alreadyExists: only the first element of the array is looked at
alreadyExistsFirstElementOnly(elements, appKebab) ==
    elements # <<>> /\ Includes(elements[1], PathNeedle(appKebab))

\* line 182: routesArray.getElements().some(el => el.getText().includes(...))
alreadyExists(elements, appKebab) ==
    \E k \in DOMAIN elements : Includes(elements[k], PathNeedle(appKebab))

\* updateAppsRoutesTs(appKebab, appTitle, appCamel) on the file f: the
\* outcome, the file afterwards and whether saveSync ran.
\*   Threw: addSourceFileAtPath (no file) or getFirstDescendantByKindOrThrow
\*   (no array literal) threw, before anything was changed.
updateAppsRoutesTs(f, appKebab, appTitle, appCamel) ==
    IF ~f.exists \/ ~f.hasArray
    THEN [result |-> "Threw", file |-> f, saved |-> FALSE]
    ELSE IF alreadyExists(f.elements, appKebab)
         THEN [result |-> "AlreadyExists", file |-> f, saved |-> FALSE]
         ELSE [result |-> "Inserted",
               file |-> [f EXCEPT !.elements =
                            Append(@, newRoute(appKebab, appTitle, appCamel))],
               saved |-> TRUE]

(***************************************************************************)
(* The registries a run can meet: entries written by hand, with single or  *)
(* double quotes or with child routes, no two with the same path.          *)
(***************************************************************************)
Quotes == {"'", "\""}

HandWritten(slug, q) == <<"{", " ", "path:", " ", q>> \o slug \o <<q, " ", "}">>

WithChild(slug, child) ==
    <<"{", " ", "path:", " ", "'">> \o slug \o <<"'", ",", " ", "children:", " ", "[">>
    \o HandWritten(child, "'") \o <<"]", " ", "}">>

\* the value of the path property of an element: the text between the first
\* pair of quotes after its first "path:"
PathOf(el) ==
    LET MinOf(S) == CHOOSE k \in S : \A m \in S : k <= m
        p == MinOf({ i \in DOMAIN el : el[i] = "path:" })
        open == MinOf({ i \in DOMAIN el : i > p /\ el[i] \in Quotes })
        close == MinOf({ i \in DOMAIN el : i > open /\ el[i] = el[open] })
    IN  SubSeq(el, open + 1, close - 1)

UniquePaths(elements) ==
    \A j, k \in DOMAIN elements :
        j # k => PathOf(elements[j]) # PathOf(elements[k])

MaxInitEntries == 2

MaxMerges == 3

InitSlugs == {<<"a">>, <<"a", "-", "b">>}

InitEntries ==
    { HandWritten(s, q) : s \in InitSlugs, q \in Quotes }
    \cup { WithChild(<<"c">>, <<"b">>) }

InitRegistries == { els \in SeqsUpTo(InitEntries, MaxInitEntries) : UniquePaths(els) }

\* the module tokens of the merging runs
ModuleTokens == {<<"a">>, <<"a", "B">>, <<"A", "-", "b">>, <<"b">>}

MergeInit ==
    /\ rawAppName = <<>>
    /\ APP_CAMEL = <<>>
    /\ APP_KEBAB = <<>>
    /\ PAS = <<>>
    /\ TITLE = <<>>
    /\ namesPc = "done"
    /\ routesFile \in { SourceFile(els) : els \in InitRegistries }
    /\ saveCount = 0
    /\ mergeLog = <<>>
    /\ NoRun
    /\ NoRace
    /\ NoGen
    /\ NoExtract

\* one run's call at line 222, updateAppsRoutesTs(APP_KEBAB, TITLE, APP_CAMEL),
\* for the names of the token t
MergeCall(t) ==
    LET camel == toCamelCase(t)
        out == updateAppsRoutesTs(routesFile, Kebab(camel), Title(camel), camel)
    IN  /\ Len(mergeLog) < MaxMerges
        /\ routesFile' = out.file
        /\ saveCount' = saveCount + (IF out.saved THEN 1 ELSE 0)
        /\ mergeLog' = Append(mergeLog,
                              [appKebab |-> Kebab(camel),
                               result |-> out.result,
                               before |-> routesFile.elements,
                               after |-> out.file.elements,
                               saved |-> out.saved])
        /\ UNCHANGED <<namesVars, runVars, raceVars, genVars, extractVars>>

Merge == \E t \in ModuleTokens : MergeCall(t)

MergeNext == Merge

SpecMerge == MergeInit /\ [][MergeNext]_vars

(***************************************************************************)
(* getHtmlFilePath (lines 45-58).                                          *)
(*                                                                         *)
(* A path is a sequence of pieces whose last piece is its extension.       *)
(* inputStat is what the path names on disk: nothing, a file, a directory  *)
(* with its listing in readdirSync order, or something else (a socket, a   *)
(* device).  The entries of a listing are regular files.                   *)
(***************************************************************************)
\* String.prototype.endsWith('.html')
endsWithHtml(name) == name # <<>> /\ name[Len(name)] = ".html"

\* path.join(inputPath, file)
pathJoin(dir, file) == dir \o <<"/">> \o file

\* mutant of getHtmlFilePath: the last matching file of the listing
getHtmlFilePathLastFile(stat, inputPath) ==
    IF stat.type = "none"
    THEN [kind |-> "throw",
          error |-> [code |-> "ENOENT", syscall |-> "stat", path |-> inputPath]]
    ELSE IF stat.type = "dir"
         THEN LET files == SelectSeq(stat.listing, endsWithHtml)
              IN  IF Len(files) > 0
                  THEN [kind |-> "return",
                        path |-> pathJoin(inputPath, files[Len(files)])]
                  ELSE [kind |-> "exit",
                        message |-> [text |-> "No HTML files found in the directory: ",
                                     path |-> inputPath]]
         ELSE IF stat.type = "file" /\ endsWithHtml(inputPath)
              THEN [kind |-> "return", path |-> inputPath]
              ELSE [kind |-> "exit",
                    message |-> [text |-> "Invalid file or directory path: ",
                                 path |-> inputPath]]

\* what the call does: it returns a path, it ends the process with status 1
\* after writing a message (process.exit(1)), or fs.statSync throws ENOENT,
\* an error that carries the path
getHtmlFilePath(stat, inputPath) ==
    IF stat.type = "none"
    THEN [kind |-> "throw",
          error |-> [code |-> "ENOENT", syscall |-> "stat", path |-> inputPath]]
    ELSE IF stat.type = "dir"
         THEN LET files == SelectSeq(stat.listing, endsWithHtml)
              IN  IF Len(files) > 0
                  THEN [kind |-> "return", path |-> pathJoin(inputPath, files[1])]
                  ELSE [kind |-> "exit",
                        message |-> [text |-> "No HTML files found in the directory: ",
                                     path |-> inputPath]]
         ELSE IF stat.type = "file" /\ endsWithHtml(inputPath)
              THEN [kind |-> "return", path |-> inputPath]
              ELSE [kind |-> "exit",
                    message |-> [text |-> "Invalid file or directory path: ",
                                 path |-> inputPath]]

\* fs.existsSync(formHtmlPath) at line 63, for a path getHtmlFilePath returned
existsSync(stat, inputPath, p) ==
    \/ stat.type = "file" /\ p = inputPath
    \/ stat.type = "dir" /\ \E k \in DOMAIN stat.listing :
                               p = pathJoin(inputPath, stat.listing[k])

(***************************************************************************)
(* The run of the script (lines 16-462).                                   *)
(*                                                                         *)
(* The top-level statements run to their end first; processFormFile, called*)
(* at line 274 and not awaited, runs up to its first await inside that     *)
(* call and continues, one response at a time, only when the top-level     *)
(* statements are done.  process.exit ends the run where it is called.     *)
(***************************************************************************)
MaxListing == 2

PathNames == { <<"f", ".html">>, <<"f", ".txt">>, <<"d">> }

ListingNames == { <<"x", ".html">>, <<"y", ".html">>, <<"z", ".txt">> }

InputStats ==
    { [type |-> t, listing |-> <<>>] : t \in {"none", "file", "other"} }
    \cup { [type |-> "dir", listing |-> l] : l \in SeqsUpTo(ListingNames, MaxListing) }

RunTokens == { <<"a", "B">>, <<"c">> }

RunRegistries ==
    { NoFile, NoArrayFile, SourceFile(<<>>),
      SourceFile(<<HandWritten(<<"a", "-", "b">>, "'")>>) }

\* what response.json() can give: an array of fields, a value that is not an
\* array (an object), a falsy value (null, false, 0, "")
JsonKinds == {"array", "object", "falsy"}

Running == exitCode = -1

\* the files of the module, under BASE = src/app/apps/<APP_KEBAB> (line 38)
BASE == <<"src/app/apps/">> \o APP_KEBAB

Artifact(suffix) == BASE \o <<"/">> \o APP_KEBAB \o <<suffix>>

ArtifactSuffixes ==
    { ".routes.ts", "-form.component.html", ".model.ts", ".service.ts",
      "-form.component.ts", "-table.component.html", "-table.component.ts",
      "-form.component.scss", "-table.component.scss" }

\* writeFile (lines 41-43)
writeFile(suffix) == trace' = Append(trace, [op |-> "write", path |-> Artifact(suffix)])

RunInit ==
    /\ rawAppName \in RunTokens
    /\ APP_CAMEL = <<>>
    /\ APP_KEBAB = <<>>
    /\ PAS = <<>>
    /\ TITLE = <<>>
    /\ namesPc = "camel"
    /\ routesFile \in RunRegistries
    /\ saveCount = 0
    /\ mergeLog = <<>>
    /\ HTML_FILE_PATH \in PathNames
    /\ inputStat \in InputStats
    /\ topPc = "mkdir"
    /\ procPc = "notCalled"
    /\ formHtmlPath = <<>>
    /\ formFieldsJson = "none"
    /\ pendingError = <<>>
    /\ exitCode = -1
    /\ stderr = <<>>
    /\ trace = <<>>
    /\ NoRace
    /\ NoGen
    /\ NoExtract

\* lines 38-39: fs.mkdirSync(BASE, { recursive: true })
Mkdir ==
    /\ Running /\ namesPc = "done" /\ topPc = "mkdir"
    /\ trace' = Append(trace, [op |-> "mkdir", path |-> BASE])
    /\ topPc' = "call"
    /\ UNCHANGED <<raceVars, genVars, extractVars, namesVars, mergeVars, HTML_FILE_PATH, inputStat, procPc,
                   formHtmlPath, formFieldsJson, pendingError, exitCode, stderr>>

\* line 274: processFormFile() runs to the await of line 105, that is through
\* extractFormFieldsToJson up to its fetch (lines 61-73)
CallProcessFormFile ==
    /\ Running /\ topPc = "call"
    /\ LET r == getHtmlFilePath(inputStat, HTML_FILE_PATH)
       IN  CASE r.kind = "exit" ->
                  /\ exitCode' = 1
                  /\ stderr' = r.message
                  /\ UNCHANGED <<topPc, procPc, formHtmlPath, pendingError, trace>>
             [] r.kind = "throw" ->
                  /\ procPc' = "rejected"
                  /\ pendingError' = r.error
                  /\ topPc' = "routes"
                  /\ UNCHANGED <<formHtmlPath, exitCode, stderr, trace>>
             [] r.kind = "return" /\ ~existsSync(inputStat, HTML_FILE_PATH, r.path) ->
                  /\ exitCode' = 1
                  /\ stderr' = [text |-> "File not found: ", path |-> r.path]
                  /\ formHtmlPath' = r.path
                  /\ UNCHANGED <<topPc, procPc, pendingError, trace>>
             [] OTHER ->
                  /\ formHtmlPath' = r.path
                  /\ procPc' = "awaitExtract"
                  /\ topPc' = "routes"
                  /\ trace' = Append(trace, [op |-> "fetch", path |-> <<"/extract-form-fields">>])
                  /\ UNCHANGED <<pendingError, exitCode, stderr>>
    /\ UNCHANGED <<raceVars, genVars, extractVars, namesVars, mergeVars, HTML_FILE_PATH, inputStat, formFieldsJson>>

\* a top-level writeFile: lines 280, 441 and 443
TopWrite(at, suffix, next) ==
    /\ Running /\ topPc = at
    /\ writeFile(suffix)
    /\ topPc' = next
    /\ UNCHANGED <<raceVars, genVars, extractVars, namesVars, mergeVars, HTML_FILE_PATH, inputStat, procPc,
                   formHtmlPath, formFieldsJson, pendingError, exitCode, stderr>>

WriteRoutes == TopWrite("routes", ".routes.ts", "formScss")

WriteFormScss == TopWrite("formScss", "-form.component.scss", "tableScss")

WriteTableScss == TopWrite("tableScss", "-table.component.scss", "end")

\* processFormFile continues only between the top-level statements' end
\* and the end of the process
Resumable == Running /\ topPc = "end"

\* lines 274-277: the rejection of processFormFile
UnexpectedError ==
    /\ Resumable /\ procPc = "rejected"
    /\ exitCode' = 1
    /\ stderr' = [text |-> "Unexpected error:", error |-> pendingError]
    /\ UNCHANGED <<raceVars, genVars, extractVars, namesVars, mergeVars, HTML_FILE_PATH, inputStat, topPc, procPc,
                   formHtmlPath, formFieldsJson, pendingError, trace>>

\* lines 74-79: the extraction request fails (fetch rejects, the response is
\* not ok, or response.json() cannot parse it)
ExtractFails ==
    /\ Resumable /\ procPc = "awaitExtract"
    /\ \E why \in {"network error", "response not ok", "unparseable response"} :
          stderr' = [text |-> "Error calling extract-form-fields API:", error |-> why]
    /\ exitCode' = 1
    /\ procPc' = "extractFailed"
    /\ UNCHANGED <<raceVars, genVars, extractVars, namesVars, mergeVars, HTML_FILE_PATH, inputStat, topPc,
                   formHtmlPath, formFieldsJson, pendingError, trace>>

\* lines 75, 105-107 and 83-89: the fields arrive; a truthy value goes on to
\* the fetch of generateTailwindHTML, a falsy one to line 225
ExtractReturns ==
    /\ Resumable /\ procPc = "awaitExtract"
    /\ \E v \in JsonKinds :
          /\ formFieldsJson' = v
          /\ IF v = "falsy"
             THEN /\ procPc' = "writeTableTs"
                  /\ trace' = Append(trace, [op |-> "extracted", path |-> <<>>])
             ELSE /\ procPc' = "awaitHtml"
                  /\ trace' = trace \o <<[op |-> "extracted", path |-> <<>>],
                                        [op |-> "fetch", path |-> <<"/generate-tailwind-form">>]>>
    /\ UNCHANGED <<raceVars, genVars, extractVars, namesVars, mergeVars, HTML_FILE_PATH, inputStat, topPc,
                   formHtmlPath, pendingError, exitCode, stderr>>

\* lines 90, 98-101: the generation request fails
HtmlFails ==
    /\ Resumable /\ procPc = "awaitHtml"
    /\ \E why \in {"network error", "response not ok"} :
          stderr' = [text |-> "Error calling generate-tailwind-form API:", error |-> why]
    /\ exitCode' = 1
    /\ procPc' = "htmlFailed"
    /\ UNCHANGED <<raceVars, genVars, extractVars, namesVars, mergeVars, HTML_FILE_PATH, inputStat, topPc,
                   formHtmlPath, formFieldsJson, pendingError, trace>>

\* lines 91-97: the markup arrives
HtmlReturns ==
    /\ Resumable /\ procPc = "awaitHtml"
    /\ procPc' = "writeFormHtml"
    /\ trace' = Append(trace, [op |-> "generated", path |-> <<>>])
    /\ UNCHANGED <<raceVars, genVars, extractVars, namesVars, mergeVars, HTML_FILE_PATH, inputStat, topPc,
                   formHtmlPath, formFieldsJson, pendingError, exitCode, stderr>>

\* a writeFile of processFormFile whose text needs no field
ProcWrite(at, suffix, next) ==
    /\ Resumable /\ procPc = at
    /\ writeFile(suffix)
    /\ procPc' = next
    /\ UNCHANGED <<raceVars, genVars, extractVars, namesVars, mergeVars, HTML_FILE_PATH, inputStat, topPc,
                   formHtmlPath, formFieldsJson, pendingError, exitCode, stderr>>

\* a writeFile of processFormFile whose text is made from the fields with
\* map or forEach: a value without them throws a TypeError before the write
ProcWriteFromFields(at, suffix, next) ==
    /\ Resumable /\ procPc = at
    /\ IF formFieldsJson = "array"
       THEN /\ writeFile(suffix)
            /\ procPc' = next
            /\ UNCHANGED pendingError
       ELSE /\ procPc' = "rejected"
            /\ pendingError' = [code |-> "TypeError", at |-> suffix]
            /\ UNCHANGED trace
    /\ UNCHANGED <<raceVars, genVars, extractVars, namesVars, mergeVars, HTML_FILE_PATH, inputStat, topPc,
                   formHtmlPath, formFieldsJson, exitCode, stderr>>

\* line 108
WriteFormHtml == ProcWrite("writeFormHtml", "-form.component.html", "writeModel")

\* line 109, generateInterfaceFile (lines 355-365)
WriteModel == ProcWriteFromFields("writeModel", ".model.ts", "writeService")

\* line 110, generateServiceFile (lines 367-385)
WriteService == ProcWrite("writeService", ".service.ts", "writeFormTs")

\* lines 112-173, with generateFormGroup (lines 301-309)
WriteFormTs == ProcWriteFromFields("writeFormTs", "-form.component.ts", "writeTableHtml")

\* lines 202-220, with generateTable (lines 311-353)
WriteTableHtml == ProcWriteFromFields("writeTableHtml", "-table.component.html", "merge")

\* line 222: updateAppsRoutesTs(APP_KEBAB, TITLE, APP_CAMEL); what it throws
\* rejects processFormFile
UpdateRoutes ==
    /\ Resumable /\ procPc = "merge"
    /\ LET out == updateAppsRoutesTs(routesFile, APP_KEBAB, TITLE, APP_CAMEL)
       IN  /\ routesFile' = out.file
           /\ saveCount' = saveCount + (IF out.saved THEN 1 ELSE 0)
           /\ mergeLog' = Append(mergeLog,
                                 [appKebab |-> APP_KEBAB,
                                  result |-> out.result,
                                  before |-> routesFile.elements,
                                  after |-> out.file.elements,
                                  saved |-> out.saved])
           /\ trace' = Append(trace, [op |-> "merge", path |-> <<>>])
           /\ IF out.result = "Threw"
              THEN /\ procPc' = "rejected"
                   /\ pendingError' = [code |-> "Error", at |-> "apps.routes.ts"]
              ELSE /\ procPc' = "writeTableTs"
                   /\ UNCHANGED pendingError
    /\ UNCHANGED <<raceVars, genVars, extractVars, namesVars, HTML_FILE_PATH, inputStat, topPc,
                   formHtmlPath, formFieldsJson, exitCode, stderr>>

\* lines 225-270, with generateTableRows and generateAddItemFunction
WriteTableTs == ProcWriteFromFields("writeTableTs", "-table.component.ts", "done")

\* processFormFile is done and nothing is pending: the process ends with 0
Finish ==
    /\ Resumable /\ procPc = "done"
    /\ exitCode' = 0
    /\ UNCHANGED <<raceVars, genVars, extractVars, namesVars, mergeVars, HTML_FILE_PATH, inputStat, topPc, procPc,
                   formHtmlPath, formFieldsJson, pendingError, stderr, trace>>

RunNext ==
    \/ DeriveCamel \/ DeriveKebab \/ DerivePas \/ DeriveTitle
    \/ Mkdir \/ CallProcessFormFile
    \/ WriteRoutes \/ WriteFormScss \/ WriteTableScss
    \/ UnexpectedError
    \/ ExtractFails \/ ExtractReturns \/ HtmlFails \/ HtmlReturns
    \/ WriteFormHtml \/ WriteModel \/ WriteService \/ WriteFormTs
    \/ WriteTableHtml \/ UpdateRoutes \/ WriteTableTs
    \/ Finish

SpecRun == RunInit /\ [][RunNext]_vars

\* the steps the process takes by itself; the four others happen when the
\* backend answers, and no timer is set on either fetch (lines 69-73, 85-89)
RunSteps ==
    \/ DeriveCamel \/ DeriveKebab \/ DerivePas \/ DeriveTitle
    \/ Mkdir \/ CallProcessFormFile
    \/ WriteRoutes \/ WriteFormScss \/ WriteTableScss
    \/ UnexpectedError
    \/ WriteFormHtml \/ WriteModel \/ WriteService \/ WriteFormTs
    \/ WriteTableHtml \/ UpdateRoutes \/ WriteTableTs
    \/ Finish

\* the process never stops at a step of its own
SpecRunLive == SpecRun /\ WF_vars(RunSteps)

(***************************************************************************)
(* Two runs that reach line 222 at the same time.                          *)
(*                                                                         *)
(* Each run is a process of its own; inside updateAppsRoutesTs the file is *)
(* read once, by addSourceFileAtPath (line 178), the check and addElement  *)
(* work on the run's copy of the source (lines 180-196), and saveSync      *)
(* (line 197) writes the whole text of that copy over the file.  The two   *)
(* runs' reads and writes of the file interleave in any order.             *)
(***************************************************************************)
Runs == {1, 2}

RaceTokens == { <<"a">>, <<"b">> }

RaceRegistries ==
    { NoFile, NoArrayFile, SourceFile(<<>>),
      SourceFile(<<HandWritten(<<"c">>, "'")>>),
      SourceFile(<<HandWritten(<<"a">>, "\"")>>),
      SourceFile(<<WithChild(<<"c">>, <<"b">>)>>) }

RaceKebab(r) == Kebab(toCamelCase(raceToken[r]))

RaceInit ==
    /\ rawAppName = <<>>
    /\ APP_CAMEL = <<>>
    /\ APP_KEBAB = <<>>
    /\ PAS = <<>>
    /\ TITLE = <<>>
    /\ namesPc = "done"
    /\ routesFile \in RaceRegistries
    /\ saveCount = 0
    /\ mergeLog = <<>>
    /\ NoRun
    /\ racePc = [r \in Runs |-> "load"]
    /\ raceToken \in [Runs -> RaceTokens]
    /\ snapshot = [r \in Runs |-> NoFile]
    /\ raceResult = [r \in Runs |-> "none"]
    /\ raceInitial = routesFile.elements
    /\ NoGen
    /\ NoExtract

\* lines 176-178: project.addSourceFileAtPath(filePath) reads the file, and
\* throws when there is none
RaceLoad(r) ==
    /\ racePc[r] = "load"
    /\ IF routesFile.exists
       THEN /\ snapshot' = [snapshot EXCEPT ![r] = routesFile]
            /\ racePc' = [racePc EXCEPT ![r] = "check"]
            /\ UNCHANGED raceResult
       ELSE /\ raceResult' = [raceResult EXCEPT ![r] = "Threw"]
            /\ racePc' = [racePc EXCEPT ![r] = "done"]
            /\ UNCHANGED snapshot
    /\ UNCHANGED <<namesVars, mergeVars, runVars, raceToken, raceInitial, genVars, extractVars>>

\* lines 180-196, on the run's copy: the array literal, the check, addElement
RaceCheck(r) ==
    /\ racePc[r] = "check"
    /\ LET camel == toCamelCase(raceToken[r])
       IN  IF ~snapshot[r].hasArray
           THEN /\ raceResult' = [raceResult EXCEPT ![r] = "Threw"]
                /\ racePc' = [racePc EXCEPT ![r] = "done"]
                /\ UNCHANGED snapshot
           ELSE IF alreadyExists(snapshot[r].elements, Kebab(camel))
                THEN /\ raceResult' = [raceResult EXCEPT ![r] = "AlreadyExists"]
                     /\ racePc' = [racePc EXCEPT ![r] = "done"]
                     /\ UNCHANGED snapshot
                ELSE /\ snapshot' =
                            [snapshot EXCEPT ![r].elements =
                                Append(@, newRoute(Kebab(camel), Title(camel), camel))]
                     /\ racePc' = [racePc EXCEPT ![r] = "save"]
                     /\ UNCHANGED raceResult
    /\ UNCHANGED <<namesVars, mergeVars, runVars, raceToken, raceInitial, genVars, extractVars>>

\* mutant of saveSync: the element is appended to the file as it is on disk
\* instead of the run's whole copy being written
saveSyncAppendOnly(file, copy) ==
    [file EXCEPT !.elements = Append(@, copy.elements[Len(copy.elements)])]

\* line 197: sourceFile.saveSync() writes the full text of the run's copy
saveSync(file, copy) == copy

\* lines 197-199
RaceSave(r) ==
    /\ racePc[r] = "save"
    /\ routesFile' = saveSync(routesFile, snapshot[r])
    /\ saveCount' = saveCount + 1
    /\ raceResult' = [raceResult EXCEPT ![r] = "Inserted"]
    /\ racePc' = [racePc EXCEPT ![r] = "done"]
    /\ UNCHANGED <<namesVars, mergeLog, runVars, raceToken, snapshot, raceInitial, genVars, extractVars>>

RaceNext == \E r \in Runs : RaceLoad(r) \/ RaceCheck(r) \/ RaceSave(r)

SpecRace == RaceInit /\ [][RaceNext]_vars

(***************************************************************************)
(* The text generators (lines 301-365).                                    *)
(*                                                                         *)
(* fieldsJson, the generators' formFieldsJson, is a sequence of fields,    *)
(* each with its formControlName (a text), its label and its type.         *)
(***************************************************************************)
\* Array.prototype.join('\n')
RECURSIVE JoinLines(_)
JoinLines(ls) ==
    IF ls = <<>> THEN <<>>
    ELSE IF Len(ls) = 1 THEN ls[1]
         ELSE ls[1] \o <<"\n">> \o JoinLines(Tail(ls))

\* lines 302-304
formGroupLines(fieldsJson) ==
    [i \in DOMAIN fieldsJson |->
        <<"    ">> \o fieldsJson[i].formControlName
        \o <<": new FormControl('', []),">>]

\* lines 301-309
generateFormGroup(fieldsJson) ==
    <<"\n", "    ">> \o JoinLines(formGroupLines(fieldsJson)) \o <<"\n">>

\* mutant of tableHeaders: the header of the last field is left out
tableHeadersWithoutLast(fieldsJson) ==
    JoinLines([i \in 1..(Len(fieldsJson) - 1) |->
                  <<"<th>", fieldsJson[i].label, "</th>">>])

\* lines 312-314
tableHeaders(fieldsJson) ==
    JoinLines([i \in DOMAIN fieldsJson |->
                  <<"<th>", fieldsJson[i].label, "</th>">>])

\* mutant of tableCells: the cells are collected in reverse order
tableCellsReversed(fieldsJson) ==
    JoinLines([i \in DOMAIN fieldsJson |->
                  <<"<td>{{ item.">>
                  \o fieldsJson[Len(fieldsJson) + 1 - i].formControlName
                  \o <<" }}</td>">>])

\* lines 316-318
tableCells(fieldsJson) ==
    JoinLines([i \in DOMAIN fieldsJson |->
                  <<"<td>{{ item.">> \o fieldsJson[i].formControlName
                  \o <<" }}</td>">>])

\* lines 311-353
generateTable(fieldsJson) ==
    <<"<p-table [value]=\"items\">", "<ng-template pTemplate=\"header\">", "<tr>">>
    \o tableHeaders(fieldsJson)
    \o <<"<th>Actions</th>", "</tr>", "</ng-template>",
         "<ng-template pTemplate=\"body\" let-item>", "<tr>">>
    \o tableCells(fieldsJson)
    \o <<"<td>", "<div class=\"flex gap-2\">",
         "<button pButton icon=\"pi pi-pencil\" (click)=\"editItem(item.id)\"></button>",
         "<button pButton icon=\"pi pi-trash\" (click)=\"deleteItem(item.id)\"></button>",
         "</div>", "</td>", "</tr>", "</ng-template>", "</p-table>">>

\* lines 356-360
interfaceLines(fieldsJson) ==
    [i \in DOMAIN fieldsJson |->
        <<"  ">> \o fieldsJson[i].formControlName
        \o <<": ", IF fieldsJson[i].type = "number" THEN "number" ELSE "string", ";">>]

\* lines 355-365: the text written to <slug>.model.ts
generateInterfaceFile(fieldsJson) ==
    <<"export interface ">> \o PAS \o <<" {", "\n", "  id: number;", "\n">>
    \o JoinLines(interfaceLines(fieldsJson)) \o <<"\n", "}", "\n">>

(***************************************************************************)
(* generateTableRows and generateAddItemFunction (lines 388-439).          *)
(*                                                                         *)
(* A number is a fraction num / den, a string a text; an object is the     *)
(* sequence of its properties in the order of their first assignment.      *)
(***************************************************************************)
Num(n) == [kind |-> "number", num |-> n, den |-> 1]

Str(text) == [kind |-> "string", text |-> text]

RECURSIVE Pow10Above(_)
\* the power of ten with as many zeros as n has decimal digits
Pow10Above(n) == IF n < 10 THEN 10 ELSE 10 * Pow10Above(n \div 10)

\* parseFloat(`${i}.${index}`)
parseFloatOf(i, index) ==
    [kind |-> "number", num |-> i * Pow10Above(index) + index, den |-> Pow10Above(index)]

\* row[key] = value
Assign(row, key, value) ==
    IF \E p \in DOMAIN row : row[p].key = key
    THEN [p \in DOMAIN row |->
             IF row[p].key = key THEN [key |-> key, value |-> value] ELSE row[p]]
    ELSE Append(row, [key |-> key, value |-> value])

\* lines 394-402: the value of the field at position k (index k - 1) in row i
rowValue(fieldsJson, k, i) ==
    LET field == fieldsJson[k]
        key == field.formControlName
    IN  IF field.type = "number"
        THEN IF key = <<"r", "e", "v", "N", "o">>
             THEN Num(10 + i)
             ELSE parseFloatOf(i, k - 1)
        ELSE Str(key \o <<"_val", ToString(i)>>)

RECURSIVE rowOf(_, _, _)
\* lines 392-403: row i after the first k fields
rowOf(fieldsJson, k, i) ==
    IF k = 0 THEN << [key |-> <<"i", "d">>, value |-> Num(i)] >>
    ELSE Assign(rowOf(fieldsJson, k - 1, i),
                fieldsJson[k].formControlName, rowValue(fieldsJson, k, i))

\* lines 388-409: the items of the generated assignment to this.items
generateTableRows(fieldsJson) ==
    [i \in 1..5 |-> rowOf(fieldsJson, Len(fieldsJson), i)]

\* lines 412-427: the property of the field at position k (index k - 1), its
\* key and the expression generated for it; BACKQUOTE is the delimiter of a
\* template literal
rowFields(fieldsJson) ==
    [k \in DOMAIN fieldsJson |->
        LET key == fieldsJson[k].formControlName
            lower == MapSeq(key, toLowerCase)
        IN  [key |-> key,
             expr |->
                IF fieldsJson[k].type = "number"
                THEN IF Includes(lower, <<"i", "d">>) THEN <<"nextId">>
                     ELSE IF Includes(lower, <<"r", "e", "v">>) THEN <<"10 + nextId">>
                     ELSE <<"nextId + ", ToString(k - 1)>>
                ELSE <<"BACKQUOTE">> \o key \o <<"_val", "${nextId}", "BACKQUOTE">>]]

\* lines 429-438: the properties of the object literal of the generated
\* addItem, id first
generateAddItemFunction(fieldsJson) ==
    << [key |-> <<"i", "d">>, expr |-> <<"nextId">>] >> \o rowFields(fieldsJson)

MaxFields == 2

FieldNames == { <<"a">>, <<"i", "d">>, <<"r", "e", "v", "N", "o">> }

FieldLabels == { "First Name", "Email" }

FieldTypes == { "text", "number" }

Fields == [formControlName : FieldNames, label : FieldLabels, type : FieldTypes]

Schemas == SeqsUpTo(Fields, MaxFields)

GenInit ==
    /\ rawAppName = orderEntry
    /\ APP_CAMEL = toCamelCase(orderEntry)
    /\ APP_KEBAB = Kebab(APP_CAMEL)
    /\ PAS = Pascal(APP_CAMEL)
    /\ TITLE = Title(APP_CAMEL)
    /\ namesPc = "done"
    /\ routesFile = NoFile
    /\ saveCount = 0
    /\ mergeLog = <<>>
    /\ NoRun
    /\ NoRace
    /\ formFieldsSchema \in Schemas
    /\ NoExtract
    /\ genPc = "interface"
    /\ genOut = [model |-> <<>>, formGroup |-> <<>>, table |-> <<>>,
                 tableRows |-> <<>>, addItem |-> <<>>]

\* a generator of processFormFile, in the order of its calls
Generate(at, key, text, next) ==
    /\ genPc = at
    /\ genOut' = [genOut EXCEPT ![key] = text]
    /\ genPc' = next
    /\ UNCHANGED <<namesVars, mergeVars, runVars, raceVars, extractVars, formFieldsSchema>>

\* line 109
GenInterface ==
    Generate("interface", "model", generateInterfaceFile(formFieldsSchema), "formGroup")

\* line 155
GenFormGroup ==
    Generate("formGroup", "formGroup", generateFormGroup(formFieldsSchema), "table")

\* line 218
GenTable ==
    Generate("table", "table", generateTable(formFieldsSchema), "tableRows")

\* line 252
GenTableRows ==
    Generate("tableRows", "tableRows", generateTableRows(formFieldsSchema), "addItem")

\* line 255
GenAddItem ==
    Generate("addItem", "addItem", generateAddItemFunction(formFieldsSchema), "done")

GenNext == GenInterface \/ GenFormGroup \/ GenTable \/ GenTableRows \/ GenAddItem

SpecGen == GenInit /\ [][GenNext]_vars

(***************************************************************************)
(* The local extraction (lines 572-609): the callback of                   *)
(* $('input, select, textarea').each, once for each matched element in     *)
(* document order.                                                         *)
(*                                                                         *)
(* An element is given by what the callback reads of it: its tag name, and *)
(* as a sequence of no or one value (no value: there is none) its type, id *)
(* and placeholder attributes, the text of the label that is its previous  *)
(* sibling, and the texts of the other labels of its closest div.          *)
(***************************************************************************)
Whitespace == {" ", "\n", "\t"}

\* String.prototype.trim
RECURSIVE trimStart(_)
trimStart(s) ==
    IF s # <<>> /\ s[1] \in Whitespace THEN trimStart(Tail(s)) ELSE s

RECURSIVE trimEnd(_)
trimEnd(s) ==
    IF s # <<>> /\ s[Len(s)] \in Whitespace
    THEN trimEnd(SubSeq(s, 1, Len(s) - 1))
    ELSE s

trim(s) == trimEnd(trimStart(s))

\* $(element).attr(name): undefined (here the empty text, falsy as well) when
\* the element has no such attribute
attr(element, name) ==
    IF element[name] = <<>> THEN <<>> ELSE element[name][1]

\* $(element).prev('label').text(): empty when the previous sibling is not a
\* label
prevLabelText(element) ==
    IF element.prev = <<>> THEN <<>> ELSE element.prev[1]

\* $(element).closest('div').find('label').text(): the texts of all the labels
\* of the div, the previous sibling's among them, one after the other; empty
\* when no div holds the element
closestDivLabelText(element) ==
    IF element.div = <<>> THEN <<>>
    ELSE Flatten(element.div[1]) \o prevLabelText(element)

\* a || b on strings
Or(a, b) == IF a # <<>> THEN a ELSE b

\* lines 589-594
labelOf(element) ==
    LET label == trim(prevLabelText(element))
    IN  IF label # <<>> THEN label
        ELSE Or(trim(closestDivLabelText(element)),
                Or(attr(element, "id"),
                   Or(attr(element, "placeholder"), <<"Unnamed">>)))

\* lines 596-604: the field pushed for an element
fieldOf(element) ==
    [label |-> labelOf(element),
     type |-> element.tagName,
     inputType |-> Or(attr(element, "type"), <<element.tagName>>)]

MaxElements == 2

LabelTexts == { <<" ">>, <<" ", "A", " ">> }

Tags ==
    { [tagName |-> "input", type |-> <<>>],
      [tagName |-> "input", type |-> << <<"number">> >>],
      [tagName |-> "select", type |-> <<>>] }

Elements ==
    { [tagName |-> e.tag.tagName, type |-> e.tag.type, prev |-> e.prev,
       div |-> e.div, id |-> e.id, placeholder |-> e.placeholder] : e \in
    [tag : Tags,
     prev : {<<>>} \cup { <<t>> : t \in LabelTexts },
     div : {<<>>, << <<>> >>, << << <<"B">> >> >>},
     id : {<<>>, << <<" ">> >>, << <<"i">> >>},
     placeholder : {<<>>, << <<" ">> >>, << <<"p">> >>}] }

Documents == SeqsUpTo(Elements, MaxElements)

ExtractInit ==
    /\ rawAppName = orderEntry
    /\ APP_CAMEL = orderEntry
    /\ APP_KEBAB = Kebab(APP_CAMEL)
    /\ PAS = Pascal(APP_CAMEL)
    /\ TITLE = Title(APP_CAMEL)
    /\ namesPc = "done"
    /\ routesFile = NoFile
    /\ saveCount = 0
    /\ mergeLog = <<>>
    /\ NoRun
    /\ NoRace
    /\ NoGen
    /\ formElements \in Documents
    /\ eachIndex = 0
    /\ formFields = <<>>

\* lines 588-605: the callback, on the next element
EachElement ==
    /\ eachIndex < Len(formElements)
    /\ eachIndex' = eachIndex + 1
    /\ formFields' = Append(formFields, fieldOf(formElements[eachIndex + 1]))
    /\ UNCHANGED <<namesVars, mergeVars, runVars, raceVars, genVars, formElements>>

ExtractNext == EachElement

SpecExtract == ExtractInit /\ [][ExtractNext]_vars

(***************************************************************************)
(* C10: the slug.                                                          *)
(***************************************************************************)
\* id in lower case, with a "-" before each upper-case letter that follows a
\* character of Before
SeparatedAfter(id, Before) ==
    Flatten([i \in 1..Len(id) |->
                IF i > 1 /\ id[i - 1] \in Before /\ id[i] \in UpperLetters
                THEN <<"-", toLowerCase(id[i])>>
                ELSE <<toLowerCase(id[i])>>])

OrderEntryNames ==
    rawAppName = orderEntry =>
        /\ APP_CAMEL = orderEntry
        /\ APP_KEBAB = <<"o","r","d","e","r","-","e","n","t","r","y">>
        /\ PAS = <<"O","r","d","e","r","E","n","t","r","y">>
        /\ TITLE = <<"O","r","d","e","r"," ","E","n","t","r","y">>

\* C10 as stated: once the names are derived, the slug is the identifier with
\* a separator exactly at each lower-case-letter to upper-case-letter
\* transition, in lower case, and "orderEntry" gives the four names of the
\* example.
C10_SlugAtLetterTransitions ==
    namesPc = "done" =>
        /\ APP_KEBAB = SeparatedAfter(APP_CAMEL, LowerLetters)
        /\ OrderEntryNames

\* C10 amended: once the names are derived, the slug is the identifier with a
\* separator exactly before each upper-case letter that follows a lower-case
\* letter or a digit, in lower case, and "orderEntry" gives the four names of
\* the example.
C10_SlugAtLetterOrDigitTransitions ==
    namesPc = "done" =>
        /\ APP_KEBAB = SeparatedAfter(APP_CAMEL, LowerLetters \cup Digits)
        /\ OrderEntryNames

\* C10 witness: the names of "orderEntry" are derived, with its separator
C10_Witness ==
    /\ namesPc = "done"
    /\ rawAppName = orderEntry
    /\ APP_KEBAB = <<"o","r","d","e","r","-","e","n","t","r","y">>

(***************************************************************************)
(* C1, C2, C3: sequential merges.                                          *)
(***************************************************************************)
\* the i-th and the next merge were made with the same slug
SameSlugTwice(i) ==
    /\ i \in 1..(Len(mergeLog) - 1)
    /\ mergeLog[i].appKebab = mergeLog[i + 1].appKebab

InsertedThenAlreadyExists(i) ==
    /\ mergeLog[i].result = "Inserted"
    /\ mergeLog[i + 1].result = "AlreadyExists"
    /\ Len(mergeLog[i + 1].after) = Len(mergeLog[i].before) + 1

\* some element's text holds the text path: '<slug>'
TextMentionsPath(elements, slug) ==
    \E k \in DOMAIN elements :
        \E i \in DOMAIN elements[k] :
            /\ i + Len(slug) + 3 <= Len(elements[k])
            /\ SubSeq(elements[k], i, i + 2) = <<"path:", " ", "'">>
            /\ SubSeq(elements[k], i + 3, i + 2 + Len(slug)) = slug
            /\ elements[k][i + 3 + Len(slug)] = "'"

\* C1 as stated: for every registry, two merges in succession with the same
\* slug yield Inserted and then AlreadyExists, and the collection grows by
\* exactly one element over the two.
C1_TwiceFromAnyRegistry ==
    \A i \in DOMAIN mergeLog :
        SameSlugTwice(i) => InsertedThenAlreadyExists(i)

\* C1 amended: for every registry none of whose elements' text holds
\* path: '<slug>', two merges in succession with that slug yield Inserted and
\* then AlreadyExists, and the collection grows by exactly one element over
\* the two.
C1_TwiceFromRegistryWithoutSlug ==
    \A i \in DOMAIN mergeLog :
        (SameSlugTwice(i) /\ ~TextMentionsPath(mergeLog[i].before, mergeLog[i].appKebab))
            => InsertedThenAlreadyExists(i)

\* C1 witness: a slug was merged twice in succession into a registry that
\* did not hold it
C1_Witness ==
    \E i \in DOMAIN mergeLog :
        /\ SameSlugTwice(i)
        /\ ~TextMentionsPath(mergeLog[i].before, mergeLog[i].appKebab)
        /\ InsertedThenAlreadyExists(i)

\* C2: a merge into a registry that holds an entry whose path is the slug
\* returns AlreadyExists, leaves every element as it was and does not save.
C2_ExistingPathLeftUnchanged ==
    \A i \in DOMAIN mergeLog :
        (\E k \in DOMAIN mergeLog[i].before :
            PathOf(mergeLog[i].before[k]) = mergeLog[i].appKebab)
        => /\ mergeLog[i].result = "AlreadyExists"
           /\ mergeLog[i].after = mergeLog[i].before
           /\ ~mergeLog[i].saved

\* C3: no two entries of the registry share a path, after any sequence of
\* merges into a registry that had no two.
C3_UniquePaths ==
    routesFile.exists /\ routesFile.hasArray => UniquePaths(routesFile.elements)

(***************************************************************************)
(* C4, C5, C7, C8: one run of the script.                                  *)
(***************************************************************************)
Exited == exitCode # -1

\* the run created the module's directory or wrote a file under it
TouchedOutputDirectory ==
    \E i \in DOMAIN trace : trace[i].op \in {"mkdir", "write"}

WroteArtifact ==
    \E i \in DOMAIN trace : trace[i].op = "write"

\* C4: a run whose extraction or generation request failed ends without
\* having created or written anything under the module's output directory.
C4_AllOrNothingGeneration ==
    (Exited /\ procPc \in {"extractFailed", "htmlFailed"})
        => ~TouchedOutputDirectory

\* C5: no artifact is written before the extraction has completed, and the
\* merge comes only after every artifact of the module has been written.
C5_LinearPipeline ==
    \A i \in DOMAIN trace :
        /\ trace[i].op = "write" =>
               \E j \in 1..(i - 1) : trace[j].op = "extracted"
        /\ trace[i].op = "merge" =>
               \A suffix \in ArtifactSuffixes :
                   \E j \in 1..(i - 1) :
                       trace[j] = [op |-> "write", path |-> Artifact(suffix)]

\* C7: a run whose merge failed (no registry file, no collection literal)
\* ends with a non-zero status, the registry as it was, and no artifact of
\* the module left behind.
C7_MergeFailureAllOrNothing ==
    (Exited /\ \E i \in DOMAIN mergeLog : mergeLog[i].result = "Threw")
        => /\ exitCode # 0
           /\ \A i \in DOMAIN mergeLog :
                  mergeLog[i].after = mergeLog[i].before /\ ~mergeLog[i].saved
           /\ ~WroteArtifact

\* line 274 has been executed
Called == Exited \/ procPc # "notCalled"

HtmlEntries(listing) == { k \in DOMAIN listing : endsWithHtml(listing[k]) }

\* the first entry of the listing, in its order, with the markup extension
FirstHtmlEntry(listing) ==
    listing[CHOOSE k \in HtmlEntries(listing) : \A m \in HtmlEntries(listing) : k <= m]

\* C8: after the path is resolved, a path that names nothing has failed with
\* ENOENT for that path (and the run, once ended, has status 1 and a message
\* that carries it); a file with the markup extension is resolved to itself;
\* a directory is resolved to its first entry, in listing order, with the
\* markup extension; and any other path has ended the run with status 1 and
\* a message that names the path.
C8_PathResolution ==
    Called =>
        CASE inputStat.type = "none" ->
                 /\ formHtmlPath = <<>>
                 /\ pendingError = [code |-> "ENOENT", syscall |-> "stat",
                                    path |-> HTML_FILE_PATH]
                 /\ Exited => exitCode = 1 /\ stderr.error.path = HTML_FILE_PATH
          [] inputStat.type = "file" /\ endsWithHtml(HTML_FILE_PATH) ->
                 /\ formHtmlPath = HTML_FILE_PATH
                 /\ procPc # "notCalled"
          [] inputStat.type = "dir" /\ HtmlEntries(inputStat.listing) # {} ->
                 /\ formHtmlPath =
                        HTML_FILE_PATH \o <<"/">> \o FirstHtmlEntry(inputStat.listing)
                 /\ procPc # "notCalled"
          [] OTHER ->
                 /\ exitCode = 1
                 /\ stderr.path = HTML_FILE_PATH
                 /\ formHtmlPath = <<>>
                 /\ ~WroteArtifact

\* C8 witness: a directory whose listing holds two markup files, resolved to
\* the first of them, and the extraction requested for it
C8_Witness ==
    /\ inputStat.type = "dir"
    /\ Cardinality({ inputStat.listing[k] : k \in HtmlEntries(inputStat.listing) }) = 2
    /\ formHtmlPath = HTML_FILE_PATH \o <<"/">> \o inputStat.listing[1]
    /\ procPc = "awaitExtract"

(***************************************************************************)
(* C6: two runs merging the same slug without a lock.                      *)
(***************************************************************************)
\* how many elements of the collection have the path slug
PathCount(elements, slug) ==
    Cardinality({ k \in DOMAIN elements : PathOf(elements[k]) = slug })

\* both runs are done, they merged the same slug, each found it absent from
\* the file it had read and appended its entry and saved
BothAppended ==
    /\ \A r \in Runs : racePc[r] = "done" /\ raceResult[r] = "Inserted"
    /\ RaceKebab(1) = RaceKebab(2)

Segments(text, open, close) ==
    LET closes == { c \in DOMAIN text :
                      text[c] = close /\ \E o \in 1..(c - 1) : text[o] = open }
        OpenBefore(c) ==
            CHOOSE o \in 1..(c - 1) :
                text[o] = open /\ \A m \in (o + 1)..(c - 1) : text[m] # open
        Nth(n) == CHOOSE c \in closes : Cardinality({ d \in closes : d < c }) = n - 1
    IN  [n \in 1..Cardinality(closes) |->
            SubSeq(text, OpenBefore(Nth(n)) + 1, Nth(n) - 1)]

SchemaNames == [i \in DOMAIN formFieldsSchema |-> formFieldsSchema[i].formControlName]

SchemaLabels == [i \in DOMAIN formFieldsSchema |-> <<formFieldsSchema[i].label>>]

\* C9: the form controls, the table headers, the table cells and the model
\* fields each come in the order of the schema.
C9_OrderPreserved ==
    genPc = "done" =>
        /\ Segments(genOut.formGroup, "    ", ": new FormControl('', []),") = SchemaNames
        /\ Segments(genOut.table, "<th>", "</th>") = SchemaLabels
        /\ Segments(genOut.table, "<td>{{ item.", " }}</td>") = SchemaNames
        /\ Segments(genOut.model, "  ", ": ") = SchemaNames

\* C9 witness: the texts of a schema of two fields with different names and
\* labels have been generated
C9_Witness ==
    /\ genPc = "done"
    /\ Len(formFieldsSchema) = 2
    /\ formFieldsSchema[1].formControlName # formFieldsSchema[2].formControlName
    /\ formFieldsSchema[1].label # formFieldsSchema[2].label
    /\ Segments(genOut.table, "<td>{{ item.", " }}</td>") = SchemaNames


(***************************************************************************)
(* C11: identifiers.                                                       *)
(***************************************************************************)
\* s matches [a-zA-Z][a-zA-Z0-9]*
IsIdentifier(s) ==
    /\ s # <<>>
    /\ s[1] \in LowerLetters \cup UpperLetters
    /\ \A i \in DOMAIN s : IsAlphaNum(s[i])

\* C11 as stated: for every token, the empty, the digit-leading and the
\* punctuation-only ones included, the identifier toCamelCase gives is not
\* empty, starts with a letter and holds only letters and digits.
C11_IdentifierSafety ==
    namesPc # "camel" => IsIdentifier(APP_CAMEL)


(***************************************************************************)
(* C12: the wait for the backend.                                          *)
(***************************************************************************)
\* C12 as stated: every run ends, with success or with a non-zero exit, also
\* when a request to the backend is never answered.
C12_EveryRunTerminates == <>(~Running)


(***************************************************************************)
(* C13: the label of a field.                                              *)
(***************************************************************************)
\* the candidates of the label of an element, in the order of the chain,
\* with the literal at the end
Candidates(element) ==
    << prevLabelText(element), closestDivLabelText(element),
       attr(element, "id"), attr(element, "placeholder"), <<"Untitled">> >>

\* the first candidate that is not empty once trimmed
FirstNonEmpty(candidates) ==
    LET k == CHOOSE i \in DOMAIN candidates :
                 /\ trim(candidates[i]) # <<>>
                 /\ \A j \in 1..(i - 1) : trim(candidates[j]) = <<>>
    IN  candidates[k]

\* C13 as stated: the label of every field pushed is the first of the text of
\* the previous sibling label, the text of the labels of the closest div,
\* the id, the placeholder and "Untitled" that is not empty once trimmed.
C13_LabelFallbackChain ==
    \A k \in DOMAIN formFields :
        trim(formFields[k].label) = trim(FirstNonEmpty(Candidates(formElements[k])))


(***************************************************************************)
(* C14: the generated addItem and the sample rows.                         *)
(***************************************************************************)
\* the digits after "nextId + "
IndexOfExpr(expr) == CHOOSE d \in 0..Len(formFieldsSchema) : ToString(d) = expr[2]

\* the value of a generated expression when nextId is n
Evaluate(expr, n) ==
    IF expr = <<"nextId">> THEN Num(n)
    ELSE IF expr = <<"10 + nextId">> THEN Num(10 + n)
    ELSE IF expr[1] = "nextId + " THEN Num(n + IndexOfExpr(expr))
    ELSE Str(SubSeq(expr, 2, Len(expr) - 2) \o <<ToString(n)>>)

RECURSIVE ObjectOf(_, _, _)
\* the object the literal of the generated addItem gives when nextId is n,
\* after its first k properties
ObjectOf(properties, k, n) ==
    IF k = 0 THEN <<>>
    ELSE Assign(ObjectOf(properties, k - 1, n),
                properties[k].key, Evaluate(properties[k].expr, n))

SameValue(a, b) ==
    /\ a.kind = b.kind
    /\ IF a.kind = "number" THEN a.num * b.den = b.num * a.den ELSE a.text = b.text

\* C14 as stated: for every field and every n, the value the generated addItem
\* gives the field when nextId is n is the value the field has in sample row n.
C14_AddItemFollowsSampleRows ==
    genPc = "done" =>
        \A n \in DOMAIN genOut.tableRows :
            LET row == genOut.tableRows[n]
                added == ObjectOf(genOut.addItem, Len(genOut.addItem), n)
            IN  /\ Len(added) = Len(row)
                /\ \A p \in DOMAIN row :
                      /\ added[p].key = row[p].key
                      /\ SameValue(added[p].value, row[p].value)


(***************************************************************************)
(* C15: the columns of the generated table.                                *)
(***************************************************************************)
\* the position of the n-th piece of text that is p
NthPiece(text, p, n) ==
    CHOOSE c \in DOMAIN text :
        text[c] = p /\ Cardinality({ d \in 1..(c - 1) : text[d] = p }) = n - 1

\* the n-th row of the table, without its line ends
TableRow(text, n) ==
    SelectSeq(SubSeq(text, NthPiece(text, "<tr>", n) + 1, NthPiece(text, "</tr>", n) - 1),
              LAMBDA p : p # "\n")

\* the number of pieces of text that are one of ps
Count(text, ps) == Cardinality({ c \in DOMAIN text : text[c] \in ps })

ActionsHeader == <<"<th>Actions</th>">>

ActionsCell ==
    <<"<td>", "<div class=\"flex gap-2\">",
      "<button pButton icon=\"pi pi-pencil\" (click)=\"editItem(item.id)\"></button>",
      "<button pButton icon=\"pi pi-trash\" (click)=\"deleteItem(item.id)\"></button>",
      "</div>", "</td>">>

\* C15: the table of every schema, the empty one too, has one header per
\* field, with its label, and one cell per field, a lookup of the item by its
\* formControlName, each followed by one actions column with the edit and
\* delete buttons: n fields give n + 1 columns.
C15_TableShape ==
    genPc \in {"tableRows", "addItem", "done"} =>
        LET n == Len(formFieldsSchema)
            header == TableRow(genOut.table, 1)
            cells == TableRow(genOut.table, 2)
        IN  /\ Count(genOut.table, {"<tr>"}) = 2
            /\ header = Flatten([k \in 1..n |->
                                    <<"<th>", formFieldsSchema[k].label, "</th>">>])
                        \o ActionsHeader
            /\ cells = Flatten([k \in 1..n |->
                                   <<"<td>{{ item.">>
                                   \o formFieldsSchema[k].formControlName
                                   \o <<" }}</td>">>])
                       \o ActionsCell
            /\ Count(header, {"<th>", "<th>Actions</th>"}) = n + 1
            /\ Count(cells, {"<td>{{ item.", "<td>"}) = n + 1

\* C15 witness: the table of the empty schema has been generated, with its
\* actions column only
C15_Witness ==
    /\ genPc = "done"
    /\ formFieldsSchema = <<>>
    /\ TableRow(genOut.table, 1) = ActionsHeader
    /\ TableRow(genOut.table, 2) = ActionsCell


(***************************************************************************)
(* C16: two runs merging different slugs without a lock.                   *)
(***************************************************************************)
\* the entry run r appends
RaceEntry(r) ==
    LET camel == toCamelCase(raceToken[r])
    IN  newRoute(Kebab(camel), Title(camel), camel)

\* C16 as stated: when two runs with different slugs have both finished, in
\* whatever order their reads, checks and writes of the file came, the file
\* holds every entry it had before and the entry of every run that reported
\* Inserted.
C16_NoLostRegistration ==
    (/\ \A r \in Runs : racePc[r] = "done"
     /\ RaceKebab(1) # RaceKebab(2))
    => /\ \A k \in DOMAIN raceInitial :
              \E m \in DOMAIN routesFile.elements : routesFile.elements[m] = raceInitial[k]
       /\ \A r \in Runs :
              raceResult[r] = "Inserted" =>
                  \E m \in DOMAIN routesFile.elements :
                      routesFile.elements[m] = RaceEntry(r)

==========================================================================
